---- MODULE Spec2Model ----
(***************************************************************************)
(* Transaction subsystem of the multi-tier node system:                    *)
(*   TransactionManager  (src/src/transactions/transaction_manager.py)     *)
(*   TwoPhaseCommit      (src/src/transactions/two_phase_commit.py)        *)
(*   RecoveryManager     (src/src/transactions/recovery.py)                *)
(* One coordinator node runs a TransactionManager that owns a              *)
(* TwoPhaseCommit; every participant node runs its own TwoPhaseCommit and  *)
(* is driven by the messages the coordinator's send callback hands to the  *)
(* transport.  The transport may lose and duplicate messages.              *)
(* Modelled beside it, each under a specification of its own:             *)
(*   VectorClock              (src/src/communication/event_ordering.py)    *)
(*   EventOrderer             (src/src/communication/event_ordering.py)    *)
(*   DistributedSharedMemory  (src/src/communication/dsm.py)               *)
(*   FailoverManager          (src/src/fault_tolerance/failover.py)        *)
(*   ReplicationManager       (src/src/fault_tolerance/replication.py)     *)
(***************************************************************************)
EXTENDS Integers, Sequences, FiniteSets, TLC

(* ---------------------------- bounds ----------------------------------- *)
\* transaction ids that generate_transaction_id can hand out in a run
MaxTxn == 1
\* calls of begin_transaction / execute_transaction / abort_transaction
\* explored per run
MaxCalls == 3
\* calls of record_vote explored per run
MaxVotes == 2
\* deliveries of one COMMIT message to one participant explored per run
MaxApply == 2

\* entries appended to the recovery log per run
MaxLog == 4
\* summaries appended to a nearly full history buffer per run
MaxAppends == 5
\* largest component value of a vector clock
MaxTick == 2
\* largest reading of the wall clock and largest timestamp of a remote update
MaxTime == 2
\* largest reading of the wall clock on the monitoring node
MaxFoTime == 4
\* replicas added to one key per run
MaxReplicas == 2
\* largest reading of the wall clock by the replication manager
MaxRepTime == 2
\* calls of other threads traced between the two locked sections of one
\* concurrent() call
MaxRaceOps == 1

\* nodes of the topology that can be named as participant or as voter
NumNodes == 2
\* longest participant list handed to begin_transaction
MaxParts == 3

\* events recorded by one EventOrderer per run
MaxEvents == 4

(* ---------------------- program constants ------------------------------ *)
\* "Keep only last 1000 transactions in memory"
HistoryCapacity == 1000

TxnIds == 1..MaxTxn
Nodes == 1..NumNodes
VoteValues == {"COMMIT", "ABORT"}
\* operation lists handed to execute_transaction
OpInputs == {<<"w">>}
\* participant lists handed to begin_transaction (duplicates and the empty
\* list included)
ParticipantInputs == UNION {[1..n -> Nodes] : n \in 0..MaxParts}

VARIABLES
    tm_transactions,        \* TransactionManager.transactions: id -> Transaction
    active_transactions,    \* TransactionManager.active_transactions
    transaction_log,        \* TransactionManager.transaction_log (history buffer)
    transactions,           \* coordinator TwoPhaseCommit.transactions
    votes,                  \* coordinator TwoPhaseCommit.votes
    send_message_callback,  \* coordinator TwoPhaseCommit.send_message_callback is set
    network,                \* messages handed to the send callback so far
    sent,                   \* per id: the messages its current run of execute sent
    part_transactions,      \* per participant node: its TwoPhaseCommit.transactions
    applied,                \* per participant, per id: runs of _execute_operations
    raised,                 \* per participant: exception raised by a handler
    recovery_log,           \* RecoveryManager.transaction_log.log
    pc,                     \* per id: position of the thread in execute_transaction
    call_ops,               \* per id: the operations argument of that call
    ret,                    \* per id: value last returned by execute_transaction
    voted_at_timeout,       \* per id: the vote table when the phase-1 wait ended
    votes_at_decision,      \* per id: the vote table when execute counted it
    cancelled,              \* per id: abort_transaction completed during the current run
    nCalls,                 \* calls started so far
    nVotes,                 \* record_vote calls so far
    recovered,              \* value last returned by RecoveryManager.recover
    node_id,                \* VectorClock.node_id
    clock,                  \* VectorClock.clock
    vc_op,                  \* the VectorClock method that returned last
    other_clock,            \* the clock argument of that call
    vc_ret,                 \* <<value>> returned by that call, <<>> for None
    received,               \* <<c>> if that call is a tick right after update(c)
    ticks,                  \* tick calls since construction or set_clock
    tick_start,             \* own component at construction or set_clock
    conc_pc,                \* position of the thread inside concurrent()
    conc_arg,               \* the clock argument of that concurrent() call
    events,                 \* EventOrderer.events: the (clock, event_id) pairs
    conc_held,              \* the values the clock held during that call so far
    consistency_level,      \* DistributedSharedMemory.consistency_level
    memory,                 \* DistributedSharedMemory.memory: key -> DSMEntry
    stamps,                 \* per key: the vector clock of the update it holds
    now,                    \* the last reading of time.time() on the store's node
    dsm_last,               \* <<method, key, value>> of the store call that returned last
    dsm_ret,                \* <<value>> returned by that call, <<>> for None
    fo_nodes,               \* FailoverManager.nodes in insertion order
    failed_nodes,           \* FailoverManager.failed_nodes
    fo_time,                \* the last reading of time.time() on the monitoring node
    fo_pending,             \* the rest of the list failed of the current monitor pass
    fo_reports,             \* per peer: failures reported since its last heartbeat
    fo_selected,            \* <<failed, replacement>> of the last _select_replacement
    replicas,               \* ReplicationManager.replicas: key -> list of Replica
    primary_replicas,       \* ReplicationManager.primary_replicas
    rep_last,               \* <<key, node>> of the promote_replica that returned last
    rep_time,               \* the last reading of time.time() by the manager
    replication_callbacks,  \* keys that have a registered sink
    rep_sink,               \* sink calls of the replicate that returned last
    rep_ret,                \* <<result>> of the replicate that returned last
    rep_failed              \* <<result>> of the check_health that returned last

vars == <<events, sent, tm_transactions, active_transactions, transaction_log, transactions,
          votes, send_message_callback, network, part_transactions, applied,
          raised, recovery_log, pc, call_ops, ret, voted_at_timeout,
          votes_at_decision, cancelled, nCalls, nVotes, recovered, node_id,
          clock, vc_op, other_clock, vc_ret, received, ticks, tick_start,
          conc_pc, conc_arg, conc_held, consistency_level, memory, stamps,
          now, dsm_last, dsm_ret, fo_nodes, failed_nodes, fo_time, fo_pending,
          fo_reports, fo_selected, replicas, primary_replicas, rep_last,
          rep_time, replication_callbacks, rep_sink, rep_ret, rep_failed>>

(* ---------------------------- helpers ---------------------------------- *)
\* dict[k] = v
Put(f, k, v) == [x \in DOMAIN f \cup {k} |-> IF x = k THEN v ELSE f[x]]

EmptyMap == [x \in {} |-> 0]

Range(s) == {s[i] : i \in 1..Len(s)}

\* add_participant without the membership test
add_participant_always(ps, p) == Append(ps, p)

\* Transaction.add_participant: append unless already present
add_participant(ps, p) == IF p \in Range(ps) THEN ps ELSE Append(ps, p)

RECURSIVE AddAll(_, _)
\* the loop of begin_transaction over the given participant list
AddAll(ps, input) ==
    IF input = <<>> THEN ps
    ELSE AddAll(add_participant(ps, Head(input)), Tail(input))

\* _log_transaction that keeps the first 1000 summaries instead of the last
_log_transaction_keep_first(log, id, status) ==
    LET l == Append(log, [transaction_id |-> id, status |-> status])
    IN IF Len(l) > HistoryCapacity THEN SubSeq(l, 1, HistoryCapacity) ELSE l

\* TransactionManager._log_transaction: append a summary, keep the last 1000
_log_transaction(log, id, status) ==
    LET l == Append(log, [transaction_id |-> id, status |-> status])
    IN IF Len(l) > HistoryCapacity
       THEN SubSeq(l, Len(l) - HistoryCapacity + 1, Len(l))
       ELSE l

\* set_state that drops the new state
set_state_dropped(txn, state) == txn

\* Transaction.set_state
set_state(txn, state) == [txn EXCEPT !.state = state]

\* Message.create_request(sender_id, receiver_id, payload), reduced to the
\* receiver and the payload
create_request(p, type, id, operations) ==
    [type |-> type, transaction_id |-> id, receiver_id |-> p,
     operations |-> operations]

\* the send loops of _phase1_voting / _phase2_commit / _abort_transaction:
\* one message per participant, only if a callback is registered
Sends(type, id, participants, operations) ==
    IF send_message_callback
    THEN {create_request(p, type, id, operations) : p \in Range(participants)}
    ELSE {}

\* the same loops, the messages in the order the callback receives them
SendSeq(type, id, participants, operations) ==
    IF send_message_callback
    THEN [i \in 1..Len(participants) |->
            create_request(participants[i], type, id, operations)]
    ELSE <<>>

\* sum(1 for vote in self.votes[transaction_id].values() if vote == "COMMIT")
commit_votes(id) == Cardinality({n \in DOMAIN votes[id] : votes[id][n] = "COMMIT"})

\* no recovery sweep has returned yet; a returned list ids is held as <<ids>>
NotRun == <<>>

(* ----------------------------- Init ------------------------------------ *)
\* VectorClock.__init__(n)
InitClock(n) ==
    /\ node_id = n
    /\ clock = [x \in {n} |-> 0]
    /\ vc_op = "init"
    /\ other_clock = EmptyMap
    /\ vc_ret = <<>>
    /\ received = <<>>
    /\ ticks = 0
    /\ tick_start = 0
    /\ conc_pc = "idle"
    /\ conc_arg = EmptyMap

\* the transaction components after construction
InitTxn ==
    /\ tm_transactions = EmptyMap
    /\ active_transactions = {}
    /\ transactions = EmptyMap
    /\ votes = EmptyMap
    /\ send_message_callback = FALSE
    /\ network = {}
    /\ sent = [t \in TxnIds |-> <<>>]
    /\ part_transactions = [p \in Nodes |-> EmptyMap]
    /\ applied = [p \in Nodes |-> [t \in TxnIds |-> 0]]
    /\ raised = [p \in Nodes |-> "none"]
    /\ recovery_log = <<>>
    /\ pc = [t \in TxnIds |-> "idle"]
    /\ call_ops = [t \in TxnIds |-> <<>>]
    /\ ret = [t \in TxnIds |-> "none"]
    /\ voted_at_timeout = [t \in TxnIds |-> EmptyMap]
    /\ votes_at_decision = [t \in TxnIds |-> EmptyMap]
    /\ cancelled = [t \in TxnIds |-> FALSE]
    /\ nCalls = 0
    /\ nVotes = 0
    /\ recovered = NotRun

\* no concurrent() call is running; EventOrderer.__init__
InitRace == conc_held = {} /\ events = <<>>

\* DistributedSharedMemory.__init__ (its vector clock is InitClock)
InitDSM ==
    /\ consistency_level = "weak"
    /\ memory = EmptyMap
    /\ stamps = EmptyMap
    /\ now = 0
    /\ dsm_last = <<>>
    /\ dsm_ret = <<>>

\* FailoverManager.__init__
InitFailover ==
    /\ fo_nodes = <<>>
    /\ failed_nodes = {}
    /\ fo_time = 0
    /\ fo_pending = <<>>
    /\ fo_reports = EmptyMap
    /\ fo_selected = <<>>

\* ReplicationManager.__init__
InitReplication ==
    /\ replicas = EmptyMap
    /\ primary_replicas = EmptyMap
    /\ rep_last = <<>>
    /\ rep_time = 0
    /\ replication_callbacks = {}
    /\ rep_sink = <<>>
    /\ rep_ret = <<>>
    /\ rep_failed = <<>>

\* the store, the failure detector and the replication manager after
\* construction
InitExt == InitRace /\ InitDSM /\ InitFailover /\ InitReplication

\* the state after construction, the history buffer left open
InitExceptHistory == InitTxn /\ InitClock(1) /\ InitExt

Init ==
    /\ transaction_log = <<>>
    /\ InitExceptHistory

tmVars == <<tm_transactions, active_transactions, transaction_log>>
tpcVars == <<transactions, votes>>
partVars == <<part_transactions, applied, raised>>
ghostVars == <<voted_at_timeout, votes_at_decision, cancelled>>
\* state of the components the transaction code never touches
clockVars == <<node_id, clock, vc_op, other_clock, vc_ret, received, ticks,
               tick_start, conc_pc, conc_arg>>
dsmVars == <<consistency_level, memory, stamps, now, dsm_last, dsm_ret>>
foVars == <<fo_nodes, failed_nodes, fo_time, fo_pending, fo_reports,
            fo_selected>>
repVars == <<replicas, primary_replicas, rep_last, rep_time,
             replication_callbacks, rep_sink, rep_ret, rep_failed>>
restVars == <<dsmVars, foVars, repVars, events>>
extVars == <<conc_held, restVars>>
logVars == <<recovery_log, recovered>>
nonTxnVars == <<recovery_log, recovered, clockVars, extVars>>

(* ------------------------ TwoPhaseCommit ------------------------------- *)
set_send_callback ==
    /\ ~send_message_callback
    /\ send_message_callback' = TRUE
    /\ UNCHANGED <<sent, tmVars, tpcVars, network, partVars, nonTxnVars, pc,
                   call_ops, ret, ghostVars, nCalls, nVotes>>

\* record_vote(transaction_id, participant_id, vote)
record_vote(id, n, v) ==
    /\ nVotes < MaxVotes
    /\ nVotes' = nVotes + 1
    /\ votes' = Put(votes, id,
                    Put(IF id \in DOMAIN votes THEN votes[id] ELSE EmptyMap, n, v))
    /\ UNCHANGED <<sent, tmVars, transactions, send_message_callback, network,
                   partVars, nonTxnVars, pc, call_ops, ret, ghostVars,
                   nCalls>>

(* ------------------------ TransactionManager --------------------------- *)
\* begin_transaction(participants): the id is fresh (uuid4)
begin_transaction(id, input) ==
    /\ id \notin DOMAIN tm_transactions
    /\ nCalls < MaxCalls
    /\ nCalls' = nCalls + 1
    /\ tm_transactions' = Put(tm_transactions, id,
            [participants |-> AddAll(<<>>, input), operations |-> <<>>,
             state |-> "initial"])
    /\ active_transactions' = active_transactions \cup {id}
    /\ UNCHANGED <<sent, transaction_log, tpcVars, send_message_callback, network,
                   partVars, nonTxnVars, pc, call_ops, ret, ghostVars,
                   nVotes>>

\* execute_transaction, first locked section, id not registered: return False
execute_transaction_unknown(id) ==
    /\ pc[id] = "idle"
    /\ nCalls < MaxCalls
    /\ id \notin DOMAIN tm_transactions
    /\ nCalls' = nCalls + 1
    /\ ret' = [ret EXCEPT ![id] = "false"]
    /\ UNCHANGED <<sent, tmVars, tpcVars, send_message_callback, network, partVars,
                   nonTxnVars, pc, call_ops, ghostVars, nVotes>>

\* execute_transaction, first locked section: add the operations
execute_transaction(id, operations) ==
    /\ pc[id] = "idle"
    /\ nCalls < MaxCalls
    /\ id \in DOMAIN tm_transactions
    /\ nCalls' = nCalls + 1
    /\ tm_transactions' = [tm_transactions EXCEPT
            ![id].operations = @ \o operations]
    /\ call_ops' = [call_ops EXCEPT ![id] = operations]
    /\ ret' = [ret EXCEPT ![id] = "none"]
    /\ cancelled' = [cancelled EXCEPT ![id] = FALSE]
    /\ pc' = [pc EXCEPT ![id] = "execute"]
    /\ UNCHANGED <<sent, active_transactions, transaction_log, tpcVars,
                   send_message_callback, network, partVars, nonTxnVars,
                   voted_at_timeout, votes_at_decision, nVotes>>

\* TwoPhaseCommit.execute, locked section: fresh table entry, fresh vote table
execute(id) ==
    /\ pc[id] = "execute"
    /\ transactions' = Put(transactions, id,
            [participants |-> tm_transactions[id].participants,
             operations |-> call_ops[id], state |-> "initial"])
    /\ votes' = Put(votes, id, EmptyMap)
    /\ voted_at_timeout' = [voted_at_timeout EXCEPT ![id] = EmptyMap]
    /\ votes_at_decision' = [votes_at_decision EXCEPT ![id] = EmptyMap]
    /\ sent' = [sent EXCEPT ![id] = <<>>]
    /\ pc' = [pc EXCEPT ![id] = "phase1"]
    /\ UNCHANGED <<tmVars, send_message_callback, network, partVars,
                   nonTxnVars, call_ops, ret, cancelled, nCalls, nVotes>>

\* _phase1_voting, first locked section
_phase1_voting_state(id) ==
    /\ pc[id] = "phase1"
    /\ transactions' = [transactions EXCEPT ![id].state = "preparing"]
    /\ pc' = [pc EXCEPT ![id] = "send_prepare"]
    /\ UNCHANGED <<sent, tmVars, votes, send_message_callback, network, partVars,
                   nonTxnVars, call_ops, ret, ghostVars, nCalls, nVotes>>

\* _phase1_voting, the PREPARE loop
_phase1_voting_send(id) ==
    /\ pc[id] = "send_prepare"
    /\ network' = network \cup Sends("PREPARE", id,
                        transactions[id].participants, call_ops[id])
    /\ sent' = [sent EXCEPT ![id] = @ \o SendSeq("PREPARE", id,
                        transactions[id].participants, call_ops[id])]
    /\ pc' = [pc EXCEPT ![id] = "wait_votes"]
    /\ UNCHANGED <<tmVars, tpcVars, send_message_callback, partVars,
                   nonTxnVars, call_ops, ret, ghostVars, nCalls, nVotes>>

\* the votes _phase1_voting leaves after its wait: every participant without
\* a vote is given "COMMIT"
SimulatedVotes(id, participants) ==
    [n \in DOMAIN votes[id] \cup Range(participants) |->
        IF n \in DOMAIN votes[id] THEN votes[id][n] ELSE "COMMIT"]

\* _phase1_voting after time.sleep(0.1): fill in the missing votes, return True
_phase1_voting_collect(id) ==
    /\ pc[id] = "wait_votes"
    /\ votes' = [votes EXCEPT ![id] =
                    SimulatedVotes(id, transactions[id].participants)]
    /\ voted_at_timeout' = [voted_at_timeout EXCEPT ![id] = votes[id]]
    /\ pc' = [pc EXCEPT ![id] = "check_votes"]
    /\ UNCHANGED <<sent, tmVars, transactions, send_message_callback, network,
                   partVars, nonTxnVars, call_ops, ret, votes_at_decision,
                   cancelled, nCalls, nVotes>>

\* the decision of execute: commit_votes == len(participants)
Decision(id) ==
    IF commit_votes(id) = Len(transactions[id].participants)
    THEN "phase2_commit" ELSE "abort"

\* execute, "Check votes"
execute_check_votes(id) ==
    /\ pc[id] = "check_votes"
    /\ pc' = [pc EXCEPT ![id] = Decision(id)]
    /\ votes_at_decision' = [votes_at_decision EXCEPT ![id] = votes[id]]
    /\ UNCHANGED <<sent, tmVars, tpcVars, send_message_callback, network, partVars,
                   nonTxnVars, call_ops, ret, voted_at_timeout, cancelled,
                   nCalls, nVotes>>

\* _phase2_commit, first locked section
_phase2_commit_state(id) ==
    /\ pc[id] = "phase2_commit"
    /\ transactions' = [transactions EXCEPT ![id].state = "committing"]
    /\ pc' = [pc EXCEPT ![id] = "send_commit"]
    /\ UNCHANGED <<sent, tmVars, votes, send_message_callback, network, partVars,
                   nonTxnVars, call_ops, ret, ghostVars, nCalls, nVotes>>

\* _phase2_commit, the COMMIT loop
_phase2_commit_send(id) ==
    /\ pc[id] = "send_commit"
    /\ network' = network \cup Sends("COMMIT", id,
                        transactions[id].participants, <<>>)
    /\ sent' = [sent EXCEPT ![id] = @ \o SendSeq("COMMIT", id,
                        transactions[id].participants, <<>>)]
    /\ pc' = [pc EXCEPT ![id] = "committed"]
    /\ UNCHANGED <<tmVars, tpcVars, send_message_callback, partVars,
                   nonTxnVars, call_ops, ret, ghostVars, nCalls, nVotes>>

\* _phase2_commit, last locked section, return True
_phase2_commit_done(id) ==
    /\ pc[id] = "committed"
    /\ transactions' = [transactions EXCEPT ![id].state = "committed"]
    /\ pc' = [pc EXCEPT ![id] = "return_true"]
    /\ UNCHANGED <<sent, tmVars, votes, send_message_callback, network, partVars,
                   nonTxnVars, call_ops, ret, ghostVars, nCalls, nVotes>>

\* _abort_transaction, first locked section
_abort_transaction_state(id) ==
    /\ pc[id] = "abort"
    /\ transactions' = [transactions EXCEPT ![id].state = "aborting"]
    /\ pc' = [pc EXCEPT ![id] = "send_abort"]
    /\ UNCHANGED <<sent, tmVars, votes, send_message_callback, network, partVars,
                   nonTxnVars, call_ops, ret, ghostVars, nCalls, nVotes>>

\* _abort_transaction, the ABORT loop
_abort_transaction_send(id) ==
    /\ pc[id] = "send_abort"
    /\ network' = network \cup Sends("ABORT", id,
                        transactions[id].participants, <<>>)
    /\ sent' = [sent EXCEPT ![id] = @ \o SendSeq("ABORT", id,
                        transactions[id].participants, <<>>)]
    /\ pc' = [pc EXCEPT ![id] = "aborted"]
    /\ UNCHANGED <<tmVars, tpcVars, send_message_callback, partVars,
                   nonTxnVars, call_ops, ret, ghostVars, nCalls, nVotes>>

\* _abort_transaction, last locked section; execute then returns False
_abort_transaction_done(id) ==
    /\ pc[id] = "aborted"
    /\ transactions' = [transactions EXCEPT ![id].state = "aborted"]
    /\ pc' = [pc EXCEPT ![id] = "return_false"]
    /\ UNCHANGED <<sent, tmVars, votes, send_message_callback, network, partVars,
                   nonTxnVars, call_ops, ret, ghostVars, nCalls, nVotes>>

\* execute_transaction, last locked section: state, active set, summary
execute_transaction_finish(id) ==
    /\ pc[id] \in {"return_true", "return_false"}
    /\ LET success == (pc[id] = "return_true")
           status == IF success THEN "committed" ELSE "aborted"
       IN /\ tm_transactions' = [tm_transactions EXCEPT
                    ![id] = set_state(@, status)]
          /\ transaction_log' = _log_transaction(transaction_log, id,
                    IF success THEN "COMMITTED" ELSE "ABORTED")
          /\ ret' = [ret EXCEPT ![id] = IF success THEN "true" ELSE "false"]
    /\ active_transactions' = active_transactions \ {id}
    /\ pc' = [pc EXCEPT ![id] = "idle"]
    /\ UNCHANGED <<sent, tpcVars, send_message_callback, network, partVars,
                   nonTxnVars, call_ops, ghostVars, nCalls, nVotes>>

\* the thread of execute_transaction(id) has not returned
Running(id) == pc[id] # "idle"

\* abort_transaction(transaction_id)
abort_transaction(id) ==
    /\ nCalls < MaxCalls
    /\ nCalls' = nCalls + 1
    /\ IF id \notin DOMAIN tm_transactions
       THEN UNCHANGED <<tmVars, cancelled>>
       ELSE /\ tm_transactions' = [tm_transactions EXCEPT
                    ![id] = set_state(@, "aborted")]
            /\ active_transactions' = active_transactions \ {id}
            /\ transaction_log' = _log_transaction(transaction_log, id, "ABORTED")
            /\ cancelled' = [cancelled EXCEPT ![id] =
                    @ \/ (Running(id) /\ pc[id] # "return_true")]
    /\ UNCHANGED <<sent, tpcVars, send_message_callback, network, partVars,
                   nonTxnVars, pc, call_ops, ret, voted_at_timeout,
                   votes_at_decision, nVotes>>

(* --------------------- participant handlers ---------------------------- *)
\* handle_prepare(transaction_id, operations) on node p, on a delivery of the
\* PREPARE message; _validate_operations returns True, the vote is "COMMIT"
handle_prepare(p, id, operations) ==
    /\ create_request(p, "PREPARE", id, operations) \in network
    /\ part_transactions' = [part_transactions EXCEPT ![p] =
            Put(@, id, [operations |-> operations, state |-> "wait"])]
    /\ part_transactions' # part_transactions
    /\ UNCHANGED <<sent, tmVars, tpcVars, send_message_callback, network, applied,
                   raised, nonTxnVars, pc, call_ops, ret, ghostVars, nCalls,
                   nVotes>>

\* handle_commit(transaction_id) on node p, on a delivery of the COMMIT
\* message, id prepared on p: mark it committed and execute its operations
handle_commit(p, id) ==
    /\ create_request(p, "COMMIT", id, <<>>) \in network
    /\ id \in DOMAIN part_transactions[p]
    /\ applied[p][id] < MaxApply
    /\ part_transactions' = [part_transactions EXCEPT
            ![p][id].state = "committed"]
    /\ applied' = [applied EXCEPT ![p][id] = @ + 1]
    /\ UNCHANGED <<sent, tmVars, tpcVars, send_message_callback, network, raised,
                   nonTxnVars, pc, call_ops, ret, ghostVars, nCalls, nVotes>>

\* handle_commit(transaction_id) on node p, id never prepared on p: KeyError
\* at self.transactions[transaction_id]["operations"]
handle_commit_unknown(p, id) ==
    /\ create_request(p, "COMMIT", id, <<>>) \in network
    /\ id \notin DOMAIN part_transactions[p]
    /\ raised[p] = "none"
    /\ raised' = [raised EXCEPT ![p] = "KeyError"]
    /\ UNCHANGED <<sent, tmVars, tpcVars, send_message_callback, network,
                   part_transactions, applied, nonTxnVars, pc, call_ops, ret,
                   ghostVars, nCalls, nVotes>>

\* handle_abort(transaction_id) on node p, on a delivery of the ABORT message
handle_abort(p, id) ==
    /\ create_request(p, "ABORT", id, <<>>) \in network
    /\ id \in DOMAIN part_transactions[p]
    /\ part_transactions' = [part_transactions EXCEPT
            ![p][id].state = "aborted"]
    /\ part_transactions' # part_transactions
    /\ UNCHANGED <<sent, tmVars, tpcVars, send_message_callback, network, applied,
                   raised, nonTxnVars, pc, call_ops, ret, ghostVars, nCalls,
                   nVotes>>

(* ------------------------- specification ------------------------------- *)
Next ==
    \/ set_send_callback
    \/ \E id \in TxnIds, n \in Nodes, v \in VoteValues : record_vote(id, n, v)
    \/ \E id \in TxnIds, input \in ParticipantInputs : begin_transaction(id, input)
    \/ \E id \in TxnIds : execute_transaction_unknown(id)
    \/ \E id \in TxnIds, operations \in OpInputs : execute_transaction(id, operations)
    \/ \E id \in TxnIds : execute(id)
    \/ \E id \in TxnIds : _phase1_voting_state(id)
    \/ \E id \in TxnIds : _phase1_voting_send(id)
    \/ \E id \in TxnIds : _phase1_voting_collect(id)
    \/ \E id \in TxnIds : execute_check_votes(id)
    \/ \E id \in TxnIds : _phase2_commit_state(id)
    \/ \E id \in TxnIds : _phase2_commit_send(id)
    \/ \E id \in TxnIds : _phase2_commit_done(id)
    \/ \E id \in TxnIds : _abort_transaction_state(id)
    \/ \E id \in TxnIds : _abort_transaction_send(id)
    \/ \E id \in TxnIds : _abort_transaction_done(id)
    \/ \E id \in TxnIds : execute_transaction_finish(id)
    \/ \E id \in TxnIds : abort_transaction(id)
    \/ \E p \in Nodes, id \in TxnIds, operations \in OpInputs :
            handle_prepare(p, id, operations)
    \/ \E p \in Nodes, id \in TxnIds : handle_commit(p, id)
    \/ \E p \in Nodes, id \in TxnIds : handle_commit_unknown(p, id)
    \/ \E p \in Nodes, id \in TxnIds : handle_abort(p, id)

Spec == Init /\ [][Next]_vars

(* ---------------------------- properties -------------------------------- *)
Terminal == {"committed", "aborted"}

\* execute_transaction(id) ran TwoPhaseCommit.execute and has returned
Returned(id) ==
    /\ pc[id] = "idle"
    /\ ret[id] # "none"
    /\ id \in DOMAIN transactions

\* every participant of id has the vote "COMMIT" in the table v
AllVotedCommit(id, v) ==
    \A p \in Range(transactions[id].participants) :
        p \in DOMAIN v /\ v[p] = "COMMIT"

\* every participant of id had a vote recorded when the phase-1 wait ended
AllVoted(id) ==
    \A p \in Range(transactions[id].participants) :
        p \in DOMAIN voted_at_timeout[id]

\* C1: for a transaction with participants that all voted through
\* record_vote, execute returns true and leaves the transaction COMMITTED
\* exactly when every participant's vote in the table the coordinator
\* counted is COMMIT; otherwise it returns false and leaves it ABORTED.
C1_CommitIffAllVotedCommit ==
    \A id \in TxnIds :
        (/\ Returned(id)
         /\ transactions[id].participants # <<>>
         /\ AllVoted(id)) =>
            IF AllVotedCommit(id, votes_at_decision[id])
            THEN ret[id] = "true" /\ transactions[id].state = "committed"
            ELSE ret[id] = "false" /\ transactions[id].state = "aborted"

\* C2: a participant without a vote when the phase-1 wait ends counts as
\* ABORT: execute returns false and the transaction ends ABORTED.
C2_MissingVoteAborts ==
    \A id \in TxnIds :
        (/\ Returned(id)
         /\ \E p \in Range(transactions[id].participants) :
                p \notin DOMAIN voted_at_timeout[id]) =>
            ret[id] = "false" /\ transactions[id].state = "aborted"

\* some participant's vote recorded during phase 1 of the run of id is ABORT
AbortVotedInPhase1(id) ==
    /\ id \in DOMAIN transactions
    /\ pc[id] \notin {"execute", "phase1", "send_prepare", "wait_votes"}
    /\ \E p \in Range(transactions[id].participants) :
            /\ p \in DOMAIN voted_at_timeout[id]
            /\ voted_at_timeout[id][p] = "ABORT"

\* C3: if a participant's vote recorded during phase 1 is ABORT, execute
\* returns false, no COMMIT message for the transaction is sent and no
\* participant applies its operations.
C3_AbortVoteBlocksCommit ==
    \A id \in TxnIds :
        AbortVotedInPhase1(id) =>
            /\ pc[id] \notin {"phase2_commit", "send_commit", "committed",
                              "return_true"}
            /\ ret[id] # "true"
            /\ \A m \in network :
                    ~(m.type = "COMMIT" /\ m.transaction_id = id)
            /\ \A p \in Nodes : applied[p][id] = 0

\* C4: when execute returned true no participant has applied the
\* operations more than once, however often COMMIT is delivered.
C4_AppliedAtMostOnce ==
    \A id \in TxnIds :
        (Returned(id) /\ ret[id] = "true") =>
            \A p \in Range(transactions[id].participants) : applied[p][id] <= 1

\* the state recorded for id in table tbl is terminal and differs in tbl2
Reverted(tbl, tbl2, id) ==
    /\ id \in DOMAIN tbl
    /\ tbl[id].state \in Terminal
    /\ (id \notin DOMAIN tbl2 \/ tbl2[id].state # tbl[id].state)

\* C5: a COMMITTED or ABORTED state never changes, in the coordinator's
\* table, in a participant's table and in the registry's Transaction.
C5_TerminalNeverReverts ==
    [][\A id \in TxnIds :
            /\ ~Reverted(transactions, transactions', id)
            /\ ~Reverted(tm_transactions, tm_transactions', id)
            /\ \A p \in Nodes :
                    ~Reverted(part_transactions[p], part_transactions'[p], id)
      ]_vars

\* C6: once abort_transaction completed during a run that had not reached
\* COMMITTED, the run does not reach COMMITTED, returns false and leaves the
\* registry state ABORTED.
C6_CancelBeforeCommitWins ==
    \A id \in TxnIds :
        (cancelled[id] /\ tm_transactions[id].participants # <<>>) =>
            /\ pc[id] # "return_true"
            /\ (pc[id] = "idle" =>
                    /\ ret[id] = "false"
                    /\ tm_transactions[id].state = "aborted")

\* the outcome of id is unknown to the coordinator or already decided
UnknownOrDecided(id) ==
    \/ id \notin DOMAIN transactions
    \/ transactions[id].state \in Terminal

\* C7: record_vote for an unknown or decided transaction id leaves the
\* vote table unchanged.
C7_LateVoteRejected ==
    [][\A id \in TxnIds :
            (nVotes' # nVotes /\ UnknownOrDecided(id)) =>
                /\ (id \in DOMAIN votes') = (id \in DOMAIN votes)
                /\ (id \in DOMAIN votes => votes'[id] = votes[id])
      ]_vars

\* C8: no transaction with zero participants is ever registered, active or
\* committed.
C8_NoEmptyParticipants ==
    \A id \in DOMAIN tm_transactions :
        tm_transactions[id].participants # <<>>

\* the recovery log holds an entry of this type for id
Logged(type, id) ==
    \E i \in 1..Len(recovery_log) :
        recovery_log[i].type = type /\ recovery_log[i].transaction_id = id

\* C9: write-ahead ordering: a PREPARE, COMMIT or ABORT message is sent, and
\* a COMMITTED or ABORTED state is reached, only after the recovery log
\* holds the entry of that phase.
C9_WriteAhead ==
    /\ \A m \in network : Logged(m.type, m.transaction_id)
    /\ \A id \in DOMAIN transactions :
            /\ transactions[id].state = "committed" => Logged("COMMIT", id)
            /\ transactions[id].state = "aborted" => Logged("ABORT", id)

RECURSIVE EntryTypes(_, _)
\* get_transaction_entries(id), reduced to the phase tags
EntryTypes(log, id) ==
    IF log = <<>> THEN <<>>
    ELSE IF Head(log).transaction_id = id
         THEN <<Head(log).type>> \o EntryTypes(Tail(log), id)
         ELSE EntryTypes(Tail(log), id)

\* C10: after execute_transaction returned, the recovery log entries of the
\* transaction are START, PREPARE and the terminal entry of the outcome.
C10_LogMatchesOutcome ==
    \A id \in TxnIds :
        Returned(id) =>
            EntryTypes(recovery_log, id) =
                <<"START", "PREPARE",
                  IF ret[id] = "true" THEN "COMMIT" ELSE "ABORT">>

(* --------------------------- RecoveryManager --------------------------- *)
txnVars == <<sent, tmVars, tpcVars, send_message_callback, network, partVars, pc,
             call_ops, ret, ghostVars, nCalls, nVotes>>

\* TransactionLog.append of the entry a log_* method builds; entry.get("status")
\* of an entry without status is None
LogAppend(type, id, status) ==
    /\ Len(recovery_log) < MaxLog
    /\ recovery_log' = Append(recovery_log,
            [type |-> type, transaction_id |-> id, status |-> status])
    /\ recovered' = NotRun
    /\ UNCHANGED <<clockVars, extVars>>

\* RecoveryManager.log_transaction_start
log_transaction_start(id) ==
    /\ LogAppend("START", id, "None")
    /\ UNCHANGED txnVars

\* RecoveryManager.log_prepare
log_prepare(id) ==
    /\ LogAppend("PREPARE", id, "None")
    /\ UNCHANGED txnVars

\* RecoveryManager.log_commit
log_commit(id) ==
    /\ LogAppend("COMMIT", id, "COMMITTED")
    /\ UNCHANGED txnVars

\* RecoveryManager.log_abort
log_abort(id) ==
    /\ LogAppend("ABORT", id, "ABORTED")
    /\ UNCHANGED txnVars

RECURSIVE UncommittedLoop(_, _)
\* the loop of get_uncommitted_transactions: an entry whose status is neither
\* COMMITTED nor ABORTED adds its transaction id
UncommittedLoop(log, transaction_ids) ==
    IF log = <<>> THEN transaction_ids
    ELSE UncommittedLoop(Tail(log),
            IF Head(log).status \notin {"COMMITTED", "ABORTED"}
            THEN transaction_ids \cup {Head(log).transaction_id}
            ELSE transaction_ids)

\* TransactionLog.get_uncommitted_transactions
get_uncommitted_transactions(log) == UncommittedLoop(log, {})

\* RecoveryManager.recover
recover ==
    /\ recovered' = <<get_uncommitted_transactions(recovery_log)>>
    /\ recovered' # recovered
    /\ UNCHANGED <<recovery_log, txnVars, clockVars, extVars>>

NextLog ==
    \/ \E id \in TxnIds : log_transaction_start(id)
    \/ \E id \in TxnIds : log_prepare(id)
    \/ \E id \in TxnIds : log_commit(id)
    \/ \E id \in TxnIds : log_abort(id)
    \/ recover

SpecLog == Init /\ [][NextLog]_vars

\* the ids with a START or PREPARE entry and no COMMIT or ABORT entry
InDoubt(log) ==
    {id \in TxnIds :
        /\ \E i \in 1..Len(log) :
                log[i].transaction_id = id /\ log[i].type \in {"START", "PREPARE"}
        /\ ~\E i \in 1..Len(log) :
                log[i].transaction_id = id /\ log[i].type \in {"COMMIT", "ABORT"}}

\* C11: the recovery sweep returns exactly the ids that have a START or
\* PREPARE entry and no COMMIT or ABORT entry.
C11_UncommittedAreInDoubt ==
    recovered # NotRun => recovered[1] = InDoubt(recovery_log)

(* ----------------------- registry properties --------------------------- *)
\* index of the first occurrence of x in the list input
FirstIndex(input, x) ==
    CHOOSE i \in 1..Len(input) :
        input[i] = x /\ \A j \in 1..(i - 1) : input[j] # x

\* r holds the elements of input once each, ordered by first occurrence
IsFirstOccurrenceOrder(r, input) ==
    /\ Range(r) = Range(input)
    /\ \A a, b \in 1..Len(r) :
            a < b => /\ r[a] # r[b]
                     /\ FirstIndex(input, r[a]) < FirstIndex(input, r[b])

Summary(id, status) == [transaction_id |-> id, status |-> status]

\* C13: when execute_transaction returns for a registered id, the id has
\* left the active set, the registry state is COMMITTED for true and ABORTED
\* for false, and the call appended exactly one summary with that status.
C13_ExecuteOutcomeRecorded ==
    [][\A id \in TxnIds :
            execute_transaction_finish(id) =>
                /\ ret'[id] \in {"true", "false"}
                /\ id \notin active_transactions'
                /\ tm_transactions'[id].state =
                        (IF ret'[id] = "true" THEN "committed" ELSE "aborted")
                /\ Len(transaction_log) < HistoryCapacity =>
                        transaction_log' = Append(transaction_log,
                            Summary(id, IF ret'[id] = "true" THEN "COMMITTED"
                                        ELSE "ABORTED"))
      ]_vars

\* execute_transaction returned true a moment ago
C13_Witness ==
    \E id \in TxnIds :
        /\ Returned(id) /\ ret[id] = "true"
        /\ id \notin active_transactions
        /\ tm_transactions[id].state = "committed"
        /\ transaction_log # <<>>
        /\ transaction_log[Len(transaction_log)] = Summary(id, "COMMITTED")

(* ------------------------- history buffer ------------------------------ *)
\* a TransactionManager that has logged n transactions so far, the oldest
\* numbered 1
InitHistory ==
    /\ \E n \in (HistoryCapacity - 2)..HistoryCapacity :
            transaction_log = [i \in 1..n |-> Summary(i, "COMMITTED")]
    /\ InitExceptHistory

\* the call self._log_transaction(transaction, status) that ends
\* execute_transaction and abort_transaction
log_summary(id, status) ==
    /\ nCalls < MaxAppends
    /\ nCalls' = nCalls + 1
    /\ transaction_log' = _log_transaction(transaction_log, id, status)
    /\ UNCHANGED <<sent, tm_transactions, active_transactions, tpcVars,
                   send_message_callback, network, partVars, nonTxnVars, pc,
                   call_ops, ret, ghostVars, nVotes>>

NextHistory ==
    \E id \in TxnIds, status \in {"COMMITTED", "ABORTED"} : log_summary(id, status)

SpecHistory == InitHistory /\ [][NextHistory]_vars

\* C14: the history buffer never exceeds its capacity; an append to a buffer
\* below capacity keeps every summary, an append to a full buffer evicts the
\* oldest summary and keeps the order of the others.
C14_HistoryBounded ==
    [][/\ Len(transaction_log') <= HistoryCapacity
       /\ Len(transaction_log') >= 1
       /\ transaction_log'[Len(transaction_log')].status \in {"COMMITTED", "ABORTED"}
       /\ IF Len(transaction_log) < HistoryCapacity
          THEN /\ Len(transaction_log') = Len(transaction_log) + 1
               /\ \A i \in 1..Len(transaction_log) :
                        transaction_log'[i] = transaction_log[i]
          ELSE /\ Len(transaction_log') = HistoryCapacity
               /\ \A i \in 1..(HistoryCapacity - 1) :
                        transaction_log'[i] = transaction_log[i + 1]
      ]_vars

\* the buffer is full and the two oldest summaries have been evicted
C14_Witness ==
    /\ Len(transaction_log) = HistoryCapacity
    /\ transaction_log[1] = Summary(3, "COMMITTED")
    /\ transaction_log[HistoryCapacity].status = "ABORTED"

(* ----------------------------- VectorClock ----------------------------- *)
\* node ids of the clocks ("node-1", "node-2")
ClockNodes == {1, 2}

\* the dicts node id -> time handed to update, set_clock, happened_before
\* and concurrent
ClockInputs == UNION {[D -> 0..MaxTick] : D \in SUBSET ClockNodes}

\* dict.get(n, 0)
Get(c, n) == IF n \in DOMAIN c THEN c[n] ELSE 0

\* a tick that stores the old value of the own component again
tick_lost(c, n) == Put(c, n, Get(c, n))

\* tick: self.clock[self.node_id] = self.clock.get(self.node_id, 0) + 1
tick(c, n) == Put(c, n, Get(c, n) + 1)

RECURSIVE UpdateLoop(_, _, _)
\* the loop of update over other_clock.items()
UpdateLoop(c, other, keys) ==
    IF keys = {} THEN c
    ELSE LET n == CHOOSE k \in keys : TRUE
             time == other[n]
         IN UpdateLoop(Put(c, n, IF Get(c, n) >= time THEN Get(c, n) ELSE time),
                       other, keys \ {n})

\* update that overwrites each component with the other clock's value
update_overwrite(c, other) ==
    [n \in DOMAIN c \cup DOMAIN other |->
        IF n \in DOMAIN other THEN other[n] ELSE c[n]]

\* VectorClock.update(other_clock)
update(c, other) == UpdateLoop(c, other, DOMAIN other)

RECURSIVE HappenedBeforeLoop(_, _, _, _)
\* the loop of happened_before over the union of the keys
HappenedBeforeLoop(c, other, keys, less_than) ==
    IF keys = {} THEN less_than
    ELSE LET n == CHOOSE k \in keys : TRUE
             local_time == Get(c, n)
             other_time == Get(other, n)
         IN IF local_time < other_time
            THEN HappenedBeforeLoop(c, other, keys \ {n}, TRUE)
            ELSE IF local_time > other_time
                 THEN FALSE
                 ELSE HappenedBeforeLoop(c, other, keys \ {n}, less_than)

\* happened_before without the early return on a larger local component
happened_before_any_less(c, other) ==
    \E n \in DOMAIN c \cup DOMAIN other : Get(c, n) < Get(other, n)

\* VectorClock.happened_before(other_clock), self.clock = c
happened_before(c, other) ==
    HappenedBeforeLoop(c, other, DOMAIN c \cup DOMAIN other, FALSE)

RECURSIVE OtherHappenedBeforeLoop(_, _, _, _)
\* the loop of _other_happened_before
OtherHappenedBeforeLoop(c, other, keys, less_than) ==
    IF keys = {} THEN less_than
    ELSE LET n == CHOOSE k \in keys : TRUE
             local_time == Get(c, n)
             other_time == Get(other, n)
         IN IF other_time < local_time
            THEN OtherHappenedBeforeLoop(c, other, keys \ {n}, TRUE)
            ELSE IF other_time > local_time
                 THEN FALSE
                 ELSE OtherHappenedBeforeLoop(c, other, keys \ {n}, less_than)

\* VectorClock._other_happened_before(other_clock), self.clock = c
_other_happened_before(c, other) ==
    OtherHappenedBeforeLoop(c, other, DOMAIN c \cup DOMAIN other, FALSE)

\* concurrent that only asks whether self happened before other
concurrent_one_sided(c, other) == ~happened_before(c, other)

\* VectorClock.concurrent(other_clock) with no other call in between
concurrent(c, other) ==
    ~happened_before(c, other) /\ ~_other_happened_before(c, other)


\* tick()
tick_call ==
    /\ Get(clock, node_id) < MaxTick
    /\ clock' = tick(clock, node_id)
    /\ vc_op' = "tick"
    /\ other_clock' = EmptyMap
    /\ vc_ret' = <<>>
    /\ received' = IF vc_op = "update" THEN <<other_clock>> ELSE <<>>
    /\ ticks' = ticks + 1
    /\ UNCHANGED <<node_id, tick_start, conc_pc, conc_arg, txnVars, logVars, restVars>>

\* tick: the call, no concurrent() call being traced
vc_tick == tick_call /\ UNCHANGED conc_held

\* update(other_clock)
update_call(c) ==
    /\ clock' = update(clock, c)
    /\ vc_op' = "update"
    /\ other_clock' = c
    /\ vc_ret' = <<>>
    /\ received' = <<>>
    /\ UNCHANGED <<node_id, ticks, tick_start, conc_pc, conc_arg, txnVars,
                   logVars, restVars>>

\* update(other_clock) that merges nothing
vc_update_dropped(c) ==
    /\ vc_op' = "update"
    /\ other_clock' = c
    /\ vc_ret' = <<>>
    /\ received' = <<>>
    /\ UNCHANGED <<node_id, clock, ticks, tick_start, conc_pc, conc_arg,
                   txnVars, logVars, extVars>>

\* update: the call, no concurrent() call being traced
vc_update(c) == update_call(c) /\ UNCHANGED conc_held

\* get_clock(): a copy of the clock
vc_get_clock ==
    /\ vc_op' = "get_clock"
    /\ other_clock' = EmptyMap
    /\ vc_ret' = <<clock>>
    /\ received' = <<>>
    /\ UNCHANGED <<node_id, clock, ticks, tick_start, conc_pc, conc_arg,
                   txnVars, logVars, extVars>>

\* set_clock(clock)
set_clock_call(c) ==
    /\ clock' = c
    /\ vc_op' = "set_clock"
    /\ other_clock' = c
    /\ vc_ret' = <<>>
    /\ received' = <<>>
    /\ ticks' = 0
    /\ tick_start' = Get(c, node_id)
    /\ UNCHANGED <<node_id, conc_pc, conc_arg, txnVars, logVars, restVars>>

\* set_clock: the call, no concurrent() call being traced
vc_set_clock(c) == set_clock_call(c) /\ UNCHANGED conc_held

\* happened_before(other_clock)
vc_happened_before(c) ==
    /\ vc_op' = "happened_before"
    /\ other_clock' = c
    /\ vc_ret' = <<happened_before(clock, c)>>
    /\ received' = <<>>
    /\ UNCHANGED <<node_id, clock, ticks, tick_start, conc_pc, conc_arg,
                   txnVars, logVars, extVars>>

\* concurrent(other_clock), first locked section: happened_before is true and
\* "not ... and ..." returns False at once
concurrent_return_early_call(c) ==
    /\ conc_pc = "idle"
    /\ happened_before(clock, c)
    /\ vc_op' = "concurrent"
    /\ other_clock' = c
    /\ vc_ret' = <<FALSE>>
    /\ received' = <<>>
    /\ UNCHANGED <<node_id, clock, ticks, tick_start, conc_pc, conc_arg,
                   txnVars, logVars, restVars>>

\* concurrent_return_early: the call, no concurrent() call being traced
vc_concurrent_return_early(c) ==
    concurrent_return_early_call(c) /\ UNCHANGED conc_held

\* concurrent(other_clock), first locked section: happened_before is false,
\* the lock is released before _other_happened_before takes it again
concurrent_first_call(c) ==
    /\ conc_pc = "idle"
    /\ ~happened_before(clock, c)
    /\ conc_pc' = "second"
    /\ conc_arg' = c
    /\ UNCHANGED <<node_id, clock, vc_op, other_clock, vc_ret, received, ticks,
                   tick_start, txnVars, logVars, restVars>>

\* concurrent_first: the call, no concurrent() call being traced
vc_concurrent_first(c) == concurrent_first_call(c) /\ UNCHANGED conc_held

\* concurrent(other_clock), second locked section and return
concurrent_second_call ==
    /\ conc_pc = "second"
    /\ vc_op' = "concurrent"
    /\ other_clock' = conc_arg
    /\ vc_ret' = <<~_other_happened_before(clock, conc_arg)>>
    /\ received' = <<>>
    /\ conc_pc' = "idle"
    /\ conc_arg' = EmptyMap
    /\ UNCHANGED <<node_id, clock, ticks, tick_start, txnVars, logVars, restVars>>

\* concurrent_second: the call, no concurrent() call being traced
vc_concurrent_second == concurrent_second_call /\ UNCHANGED conc_held

\* a VectorClock of any node, the other components after construction
InitVectorClock ==
    /\ \E n \in ClockNodes : InitClock(n)
    /\ transaction_log = <<>>
    /\ InitTxn
    /\ InitExt

NextClock ==
    \/ vc_tick
    \/ \E c \in ClockInputs : vc_update(c)
    \/ vc_get_clock
    \/ \E c \in ClockInputs : vc_set_clock(c)
    \/ \E c \in ClockInputs : vc_happened_before(c)
    \/ \E c \in ClockInputs : vc_concurrent_return_early(c)
    \/ \E c \in ClockInputs : vc_concurrent_first(c)
    \/ vc_concurrent_second

SpecClock == InitVectorClock /\ [][NextClock]_vars

\* a VectorClock of any node holding any clock: the state set_clock(c) leaves
\* on a new VectorClock
InitMerge ==
    /\ \E n \in ClockNodes, c \in ClockInputs :
          /\ node_id = n
          /\ clock = c
          /\ vc_op = "set_clock"
          /\ other_clock = c
          /\ vc_ret = <<>>
          /\ received = <<>>
          /\ ticks = 0
          /\ tick_start = Get(c, n)
          /\ conc_pc = "idle"
          /\ conc_arg = EmptyMap
    /\ transaction_log = <<>>
    /\ InitTxn
    /\ InitExt

\* the merges of one clock
NextMerge == \E c \in ClockInputs : vc_update(c)

SpecMerge == InitMerge /\ [][NextMerge]_vars

(* ---------------- VectorClock.concurrent among other callers ----------- *)
\* the clocks another thread hands to update and set_clock, and the argument
\* of concurrent(), while concurrent() runs
RaceInputs == UNION {[D -> 0..MaxTick] : D \in SUBSET {1}}

\* the values the clock has held since concurrent() took the lock the first
\* time, once it holds c; nothing is traced outside a call
Held(c) == IF conc_pc = "second" THEN conc_held \cup {c} ELSE {}

\* another call fits between the two locked sections
RaceBudget == conc_pc = "second" => Cardinality(conc_held) <= MaxRaceOps

\* tick() of any thread
rc_tick == RaceBudget /\ tick_call /\ conc_held' = Held(clock')

\* update(c) of any thread
rc_update(c) == RaceBudget /\ update_call(c) /\ conc_held' = Held(clock')

\* set_clock(c) of any thread
rc_set_clock(c) == RaceBudget /\ set_clock_call(c) /\ conc_held' = Held(clock')

\* concurrent(c) returns False from its first locked section
rc_concurrent_return_early(c) ==
    concurrent_return_early_call(c) /\ conc_held' = {clock}

\* concurrent(c) leaves its first locked section
rc_concurrent_first(c) == concurrent_first_call(c) /\ conc_held' = {clock}

\* concurrent(c) runs its second locked section and returns
rc_concurrent_second ==
    concurrent_second_call /\ conc_held' = conc_held \cup {clock}

NextRace ==
    \/ rc_tick
    \/ \E c \in RaceInputs : rc_update(c)
    \/ \E c \in RaceInputs : rc_set_clock(c)
    \/ \E c \in RaceInputs : rc_concurrent_return_early(c)
    \/ \E c \in RaceInputs : rc_concurrent_first(c)
    \/ rc_concurrent_second

SpecRace == InitVectorClock /\ [][NextRace]_vars

\* C21: the value concurrent(other) returns is the concurrency relation
\* between other and one value the clock held during the call, whatever tick,
\* update and set_clock calls ran between its two locked sections.
C21_ConcurrentOfOneHeldValue ==
    (vc_op = "concurrent" /\ conc_pc = "idle" /\ conc_held # {}) =>
        \E v \in conc_held : vc_ret = <<concurrent(v, other_clock)>>

(* ---------------------- DistributedSharedMemory ------------------------ *)
\* keys and values of the store
DsmKeys == {"k"}
DsmValues == {"a", "b"}
\* wall-clock readings and timestamps of remote updates
Times == 0..MaxTime
\* the values consistency_level is compared with
Levels == {"weak", "strong", "causal"}

\* del dict[k]
Remove(f, k) == [x \in DOMAIN f \ {k} |-> f[x]]

\* DSMEntry.__init__
DSMEntry(value, timestamp, n) ==
    [value |-> value, timestamp |-> timestamp, node_id |-> n, version |-> 0]

\* DSMEntry.update
DSMEntry_update(e, value, timestamp, n) ==
    IF timestamp > e.timestamp
    THEN [value |-> value, timestamp |-> timestamp, node_id |-> n,
          version |-> e.version + 1]
    ELSE e

\* the branch "if key in self.memory: update else: create" of set and of the
\* weak branch of update_from_remote
Store(mem, k, value, timestamp, n) ==
    IF k \in DOMAIN mem
    THEN Put(mem, k, DSMEntry_update(mem[k], value, timestamp, n))
    ELSE Put(mem, k, DSMEntry(value, timestamp, n))

\* the vector clock of the update an entry holds: c once Store has changed
\* the entry, the old one otherwise
Stamp(mem, mem2, k, c) ==
    IF k \notin DOMAIN mem \/ mem2[k] # mem[k] THEN Put(stamps, k, c) ELSE stamps

\* set(k, value); t is the reading of time.time(), which is never below the
\* last reading and may repeat it
dsm_set(k, value, t) ==
    /\ t >= now
    /\ Get(clock, node_id) < MaxTick
    /\ now' = t
    /\ clock' = tick(clock, node_id)
    /\ memory' = Store(memory, k, value, t, node_id)
    /\ stamps' = Stamp(memory, memory', k, clock')
    /\ dsm_last' = <<"set", k, value>>
    /\ dsm_ret' = <<>>
    /\ UNCHANGED <<consistency_level, node_id, vc_op, other_clock, vc_ret,
                   received, ticks, tick_start, conc_pc, conc_arg, conc_held, events,
                   foVars, repVars, txnVars, logVars>>

\* get(k)
dsm_get(k) ==
    /\ dsm_last' = <<"get", k>>
    /\ dsm_ret' = IF k \in DOMAIN memory THEN <<memory[k].value>> ELSE <<>>
    /\ UNCHANGED <<consistency_level, memory, stamps, now, clockVars,
                   conc_held, events, foVars, repVars, txnVars, logVars>>

\* delete(k)
dsm_delete(k) ==
    /\ k \in DOMAIN memory
    /\ memory' = Remove(memory, k)
    /\ stamps' = Remove(stamps, k)
    /\ dsm_last' = <<"delete", k>>
    /\ dsm_ret' = <<>>
    /\ UNCHANGED <<consistency_level, now, clockVars, conc_held, events, foVars,
                   repVars, txnVars, logVars>>

\* the condition under which update_from_remote calls self.set: the strong
\* and the causal branch, c the local clock after the merge
CallsSet(c, k, timestamp, vector_clock) ==
    \/ /\ consistency_level = "strong"
       /\ k \notin DOMAIN memory \/ timestamp > memory[k].timestamp
    \/ /\ consistency_level = "causal"
       /\ happened_before(c, vector_clock)

\* the weak branch of update_from_remote on the map mem
weak_apply(mem, k, value, timestamp, n) ==
    IF k \notin DOMAIN mem \/ timestamp > mem[k].timestamp
    THEN Store(mem, k, value, timestamp, n)
    ELSE mem

\* update_from_remote(k, value, timestamp, n, vector_clock); t is the reading
\* of time.time() inside self.set when that is called
dsm_update_from_remote(k, value, timestamp, n, vector_clock, t) ==
    LET merged == update(clock, vector_clock)
        calls_set == CallsSet(merged, k, timestamp, vector_clock)
    IN /\ t >= now
       /\ ~calls_set => t = now
       /\ calls_set => Get(merged, node_id) < MaxTick
       /\ now' = t
       /\ clock' = IF calls_set THEN tick(merged, node_id) ELSE merged
       /\ memory' = IF calls_set
                    THEN Store(memory, k, value, t, node_id)
                    ELSE IF consistency_level \in {"strong", "causal"}
                         THEN memory
                         ELSE weak_apply(memory, k, value, timestamp, n)
       /\ stamps' = IF memory' = memory THEN stamps
                    ELSE IF calls_set THEN Put(stamps, k, clock')
                         ELSE Put(stamps, k, vector_clock)
       /\ dsm_last' = <<"update_from_remote", k, value>>
       /\ dsm_ret' = <<>>
       /\ UNCHANGED <<consistency_level, node_id, vc_op, other_clock, vc_ret,
                      received, ticks, tick_start, conc_pc, conc_arg,
                      conc_held, events, foVars, repVars, txnVars, logVars>>

\* a store on node 1 whose consistency_level was assigned after construction
InitStore ==
    /\ InitClock(1)
    /\ transaction_log = <<>>
    /\ InitTxn
    /\ InitRace
    /\ \E level \in Levels : consistency_level = level
    /\ memory = EmptyMap
    /\ stamps = EmptyMap
    /\ now = 0
    /\ dsm_last = <<>>
    /\ dsm_ret = <<>>
    /\ InitFailover
    /\ InitReplication

NextStore ==
    \/ \E k \in DsmKeys, value \in DsmValues, t \in Times : dsm_set(k, value, t)
    \/ \E k \in DsmKeys : dsm_get(k)
    \/ \E k \in DsmKeys : dsm_delete(k)
    \/ \E k \in DsmKeys, value \in DsmValues, timestamp \in Times,
          n \in ClockNodes, vector_clock \in ClockInputs, t \in Times :
            dsm_update_from_remote(k, value, timestamp, n, vector_clock, t)

SpecStore == InitStore /\ [][NextStore]_vars

(* --------------------------- FailoverManager --------------------------- *)
\* FailoverManager.node_id of the monitoring node and the ids handed to
\* register_node and update_heartbeat
FoSelf == 1
FoNodeIds == {1, 2, 3}
\* values of the priority argument of register_node
Priorities == {1, 2}
\* the timeout argument of FailoverManager.__init__, in units of the readings
\* of the wall clock
timeout == 1
FoTimes == 0..MaxFoTime

\* the keys of self.nodes
Registered == {fo_nodes[i].node_id : i \in 1..Len(fo_nodes)}

\* position of n in self.nodes (insertion order)
IndexOf(n) == CHOOSE i \in 1..Len(fo_nodes) : fo_nodes[i].node_id = n

\* self.nodes[n]
StatusOf(n) == fo_nodes[IndexOf(n)]

\* register_node(n, priority); t is the reading of time.time()
fo_register_node(n, priority, t) ==
    /\ t >= fo_time
    /\ fo_time' = t
    /\ LET status == [node_id |-> n, is_active |-> TRUE, last_heartbeat |-> t,
                      priority |-> priority,
                      failover_count |-> IF n \in Registered
                                         THEN StatusOf(n).failover_count
                                         ELSE 0]
       IN fo_nodes' = IF n \in Registered
                      THEN [fo_nodes EXCEPT ![IndexOf(n)] = status]
                      ELSE Append(fo_nodes, status)
    /\ UNCHANGED <<failed_nodes, fo_pending, fo_reports, fo_selected, conc_held, events,
                   dsmVars, repVars, clockVars, txnVars, logVars>>

\* update_heartbeat(n) for a registered n; t is the reading of time.time()
fo_update_heartbeat(n, t) ==
    /\ n \in Registered
    /\ t >= fo_time
    /\ fo_time' = t
    /\ fo_nodes' = [fo_nodes EXCEPT ![IndexOf(n)] =
            [@ EXCEPT !.last_heartbeat = t,
                      !.is_active = IF n \in failed_nodes THEN TRUE ELSE @]]
    /\ failed_nodes' = failed_nodes \ {n}
    /\ fo_reports' = Put(fo_reports, n, 0)
    /\ UNCHANGED <<fo_pending, fo_selected, conc_held, events, dsmVars, repVars,
                   clockVars, txnVars, logVars>>

\* the test of _monitor_nodes on the entry status at current_time
TimedOut(status, current_time) ==
    /\ status.node_id # FoSelf
    /\ current_time - status.last_heartbeat > timeout

\* the list failed that the locked loop of _monitor_nodes builds
FailedList(current_time) ==
    SelectSeq(fo_nodes, LAMBDA status :
        TimedOut(status, current_time) /\ status.node_id \notin failed_nodes)

\* one pass of _monitor_nodes up to the release of the lock; t is the reading
\* current_time
fo_monitor_check(t) ==
    /\ fo_pending = <<>>
    /\ t >= fo_time
    /\ fo_time' = t
    /\ LET failed == FailedList(t)
           ids == {failed[i].node_id : i \in 1..Len(failed)}
       IN /\ fo_pending' = [i \in 1..Len(failed) |-> failed[i].node_id]
          /\ failed_nodes' = failed_nodes \cup ids
          /\ fo_nodes' = [i \in 1..Len(fo_nodes) |->
                IF fo_nodes[i].node_id \in ids
                THEN [fo_nodes[i] EXCEPT !.is_active = FALSE]
                ELSE fo_nodes[i]]
          /\ fo_reports' = [n \in DOMAIN fo_reports \cup ids |->
                IF n \in ids THEN Get(fo_reports, n) + 1 ELSE fo_reports[n]]
    /\ UNCHANGED <<fo_selected, conc_held, events, dsmVars, repVars, clockVars, txnVars,
                   logVars>>

RECURSIVE SortByPriority(_)
\* list.sort(key=priority): stable, equal priorities keep their order
SortByPriority(seq) ==
    IF seq = <<>> THEN <<>>
    ELSE LET low == CHOOSE i \in 1..Len(seq) :
                       /\ \A j \in 1..Len(seq) : seq[i].priority <= seq[j].priority
                       /\ \A j \in 1..(i - 1) : seq[j].priority > seq[i].priority
         IN <<seq[low]>> \o SortByPriority(
                [j \in 1..(Len(seq) - 1) |-> IF j < low THEN seq[j] ELSE seq[j + 1]])

\* the value _select_replacement(failed_node_id) returns: <<id>>, <<>> for None
select_replacement(failed_node_id) ==
    IF failed_node_id \notin Registered THEN <<>>
    ELSE LET active_nodes == SelectSeq(fo_nodes, LAMBDA status :
                 status.node_id # failed_node_id /\ status.is_active)
         IN IF active_nodes = <<>> THEN <<>>
            ELSE <<SortByPriority(active_nodes)[1].node_id>>

\* _trigger_failover for the next entry of the list failed: the locked
\* _select_replacement, then the callbacks
fo_trigger_failover ==
    /\ fo_pending # <<>>
    /\ LET failed_node_id == Head(fo_pending)
           replacement == select_replacement(failed_node_id)
       IN /\ fo_selected' = <<failed_node_id, replacement>>
          /\ fo_nodes' = IF replacement = <<>> THEN fo_nodes
                ELSE [fo_nodes EXCEPT ![IndexOf(replacement[1])].failover_count
                                            = @ + 1]
    /\ fo_pending' = Tail(fo_pending)
    /\ UNCHANGED <<failed_nodes, fo_time, fo_reports, conc_held, events, dsmVars,
                   repVars, clockVars, txnVars, logVars>>

NextFailover ==
    \/ \E n \in FoNodeIds, priority \in Priorities, t \in FoTimes :
          fo_register_node(n, priority, t)
    \/ \E n \in FoNodeIds, t \in FoTimes : fo_update_heartbeat(n, t)
    \/ \E t \in FoTimes : fo_monitor_check(t)
    \/ fo_trigger_failover

SpecFailover == Init /\ [][NextFailover]_vars

(* -------------------------- ReplicationManager ------------------------- *)
\* keys, replica ids and node ids handed to the manager, the readings of
\* time.time() and the timeouts handed to check_health
RepKeys == {"k"}
RepIds == {"r1", "r2"}
RepNodes == {1, 2, 3}
RepValues == {"v"}
RepTimes == 0..MaxRepTime
RepTimeouts == {1}

\* what no call of the kind has returned yet, and what the other calls leave
NoResults == rep_last' = <<>> /\ rep_sink' = <<>> /\ rep_ret' = <<>>
             /\ rep_failed' = <<>>

\* Replica.__init__, t the reading of time.time()
Replica(replica_id, n, is_primary, t) ==
    [replica_id |-> replica_id, node_id |-> n, is_primary |-> is_primary,
     is_active |-> TRUE, last_heartbeat |-> t]

\* add_replica(k, replica_id, n, is_primary)
rep_add_replica(k, replica_id, n, is_primary, t) ==
    /\ t >= rep_time
    /\ k \in DOMAIN replicas => Len(replicas[k]) < MaxReplicas
    /\ replicas' = Put(replicas, k,
            Append(IF k \in DOMAIN replicas THEN replicas[k] ELSE <<>>,
                   Replica(replica_id, n, is_primary, t)))
    /\ primary_replicas' = IF is_primary THEN Put(primary_replicas, k, n)
                           ELSE primary_replicas
    /\ rep_time' = t
    /\ NoResults
    /\ UNCHANGED <<replication_callbacks, conc_held, events, dsmVars, foVars,
                   clockVars, txnVars, logVars>>

\* get_primary(k): <<node id>>, <<>> for None
get_primary(primary, k) == IF k \in DOMAIN primary THEN <<primary[k]>> ELSE <<>>

\* promote_replica(k, n)
rep_promote_replica(k, n) ==
    /\ IF k \notin DOMAIN replicas
       THEN UNCHANGED <<replicas, primary_replicas>>
       ELSE /\ replicas' = Put(replicas, k,
                    [i \in 1..Len(replicas[k]) |->
                        [replicas[k][i] EXCEPT
                            !.is_primary = (replicas[k][i].node_id = n)]])
            /\ primary_replicas' =
                    IF \E i \in 1..Len(replicas[k]) : replicas[k][i].node_id = n
                    THEN Put(primary_replicas, k, n)
                    ELSE primary_replicas
    /\ rep_last' = <<k, n>>
    /\ rep_sink' = <<>> /\ rep_ret' = <<>> /\ rep_failed' = <<>>
    /\ UNCHANGED <<rep_time, replication_callbacks, conc_held, events, dsmVars,
                   foVars, clockVars, txnVars, logVars>>

\* register_replication_callback(k, callback)
rep_register_replication_callback(k) ==
    /\ replication_callbacks' = replication_callbacks \cup {k}
    /\ NoResults
    /\ UNCHANGED <<replicas, primary_replicas, rep_time, conc_held, events, dsmVars,
                   foVars, clockVars, txnVars, logVars>>

\* the first replica of the list that has the id, 0 when none has
FirstWithId(list, replica_id) ==
    IF \E i \in 1..Len(list) : list[i].replica_id = replica_id
    THEN CHOOSE i \in 1..Len(list) :
            /\ list[i].replica_id = replica_id
            /\ \A j \in 1..(i - 1) : list[j].replica_id # replica_id
    ELSE 0

\* update_heartbeat(replica_id), t the reading of time.time()
rep_update_heartbeat(replica_id, t) ==
    /\ t >= rep_time
    /\ replicas' = [k \in DOMAIN replicas |->
            [i \in 1..Len(replicas[k]) |->
                IF i = FirstWithId(replicas[k], replica_id)
                THEN [replicas[k][i] EXCEPT !.last_heartbeat = t]
                ELSE replicas[k][i]]]
    /\ rep_time' = IF \E k \in DOMAIN replicas :
                        FirstWithId(replicas[k], replica_id) # 0
                   THEN t ELSE rep_time
    /\ NoResults
    /\ UNCHANGED <<primary_replicas, replication_callbacks, conc_held, events,
                   dsmVars, foVars, clockVars, txnVars, logVars>>

\* the test of check_health on one replica
Stale(replica, current_time, tmo) == current_time - replica.last_heartbeat > tmo

\* the node ids check_health appends for one key, in list order
FailedReplicas(list, current_time, tmo) ==
    SelectSeq([i \in 1..Len(list) |-> list[i]],
              LAMBDA r : Stale(r, current_time, tmo))

NodeIds(list) == [i \in 1..Len(list) |-> list[i].node_id]

\* check_health(tmo), t the reading of time.time()
rep_check_health(tmo, t) ==
    /\ t >= rep_time
    /\ replicas' = [k \in DOMAIN replicas |->
            [i \in 1..Len(replicas[k]) |->
                [replicas[k][i] EXCEPT
                    !.is_active = ~Stale(replicas[k][i], t, tmo)]]]
    /\ rep_failed' = <<[k \in {kk \in DOMAIN replicas :
                                  FailedReplicas(replicas[kk], t, tmo) # <<>>}
                          |-> NodeIds(FailedReplicas(replicas[k], t, tmo))]>>
    /\ rep_time' = t
    /\ rep_last' = <<>> /\ rep_sink' = <<>> /\ rep_ret' = <<>>
    /\ UNCHANGED <<primary_replicas, replication_callbacks, conc_held, events,
                   dsmVars, foVars, clockVars, txnVars, logVars>>

\* a loop that pushes to the stale replicas as well
Eligible_inactive_too(list, origin) ==
    SelectSeq([i \in 1..Len(list) |-> i], LAMBDA i : list[i].node_id # origin)

\* the replicas the loop of replicate pushes to, in list order
Eligible(list, origin) ==
    SelectSeq([i \in 1..Len(list) |-> i],
              LAMBDA i : list[i].node_id # origin /\ list[i].is_active)

\* replicate(k, value, origin); raises holds the positions of the replicas
\* for which the sink raises. Every sink call is made inside
\* "with self.lock", which the call record notes in held.
rep_replicate(k, value, origin, raises) ==
    /\ IF k \notin DOMAIN replicas
       THEN rep_sink' = <<>> /\ rep_ret' = <<FALSE>>
       ELSE LET calls == IF k \in replication_callbacks
                         THEN Eligible(replicas[k], origin) ELSE <<>>
                success_count ==
                    Cardinality({j \in 1..Len(calls) : calls[j] \notin raises})
            IN  /\ rep_sink' = [j \in 1..Len(calls) |->
                        [node_id |-> replicas[k][calls[j]].node_id,
                         key |-> k, value |-> value,
                         raised |-> calls[j] \in raises,
                         held |-> {"replication"}]]
                /\ rep_ret' = <<success_count > 0>>
    /\ rep_last' = <<>> /\ rep_failed' = <<>>
    /\ UNCHANGED <<replicas, primary_replicas, rep_time,
                   replication_callbacks, conc_held, events, dsmVars, foVars,
                   clockVars, txnVars, logVars>>

NextReplication ==
    \/ \E k \in RepKeys, replica_id \in RepIds, n \in RepNodes,
          is_primary \in BOOLEAN, t \in RepTimes :
            rep_add_replica(k, replica_id, n, is_primary, t)
    \/ \E k \in RepKeys, n \in RepNodes : rep_promote_replica(k, n)
    \/ \E k \in RepKeys : rep_register_replication_callback(k)
    \/ \E replica_id \in RepIds, t \in RepTimes :
            rep_update_heartbeat(replica_id, t)
    \/ \E tmo \in RepTimeouts, t \in RepTimes : rep_check_health(tmo, t)
    \/ \E k \in RepKeys, value \in RepValues, origin \in RepNodes,
          raises \in SUBSET (1..MaxReplicas) :
            rep_replicate(k, value, origin, raises)

SpecReplication == Init /\ [][NextReplication]_vars

(* ----------------------------- EventOrderer ---------------------------- *)
\* event ids handed to create_event and receive_event
EventIds == {"a", "b"}

\* create_event(event_id, data): tick, record the event under a copy of the
\* clock
eo_create_event(event_id) ==
    /\ Len(events) < MaxEvents
    /\ clock' = tick(clock, node_id)
    /\ events' = Append(events, [clock |-> clock', event_id |-> event_id])
    /\ UNCHANGED <<node_id, vc_op, other_clock, vc_ret, received, ticks,
                   tick_start, conc_pc, conc_arg, conc_held, dsmVars, foVars,
                   repVars, txnVars, logVars>>

\* receive_event(event_id, data, c): merge c, record the event under a copy
\* of c; _sort_events is empty
eo_receive_event(event_id, c) ==
    /\ Len(events) < MaxEvents
    /\ clock' = update(clock, c)
    /\ events' = Append(events, [clock |-> c, event_id |-> event_id])
    /\ UNCHANGED <<node_id, vc_op, other_clock, vc_ret, received, ticks,
                   tick_start, conc_pc, conc_arg, conc_held, dsmVars, foVars,
                   repVars, txnVars, logVars>>

\* _clock_to_tuple(c): the times of c in the order of the sorted node ids
_clock_to_tuple(c) ==
    [i \in 1..Cardinality(DOMAIN c) |->
        c[CHOOSE k \in DOMAIN c :
            Cardinality({x \in DOMAIN c : x < k}) = i - 1]]

\* s < t for two tuples of numbers as sorted compares them: at the first
\* position where they differ, or s a proper prefix of t
TupleLess(s, t) ==
    \/ \E i \in 1..Len(s) :
          /\ i <= Len(t)
          /\ s[i] < t[i]
          /\ \A j \in 1..(i - 1) : s[j] = t[j]
    \/ Len(s) < Len(t) /\ \A j \in 1..Len(s) : s[j] = t[j]

RECURSIVE SortByClock(_)
\* sorted(events, key=_clock_to_tuple): stable, equal keys keep their order
SortByClock(seq) ==
    IF seq = <<>> THEN <<>>
    ELSE LET low == CHOOSE i \in 1..Len(seq) :
                /\ \A j \in 1..Len(seq) :
                      ~TupleLess(_clock_to_tuple(seq[j].clock),
                                 _clock_to_tuple(seq[i].clock))
                /\ \A j \in 1..(i - 1) :
                      TupleLess(_clock_to_tuple(seq[i].clock),
                                _clock_to_tuple(seq[j].clock))
         IN <<seq[low]>> \o SortByClock(
                [j \in 1..(Len(seq) - 1) |-> IF j < low THEN seq[j] ELSE seq[j + 1]])

\* get_causal_order(): the event ids of the sorted events
get_causal_order == [i \in 1..Len(events) |-> SortByClock(events)[i].event_id]

NextOrder ==
    \/ \E event_id \in EventIds : eo_create_event(event_id)
    \/ \E event_id \in EventIds, c \in ClockInputs :
          eo_receive_event(event_id, c)

SpecOrder == InitVectorClock /\ [][NextOrder]_vars

(* ----------------------- VectorClock properties ------------------------ *)
\* A <= B in every component and A < B in at least one, absent entries 0
StrictlyDominated(A, B) ==
    /\ \A i \in ClockNodes : Get(A, i) <= Get(B, i)
    /\ \E i \in ClockNodes : Get(A, i) < Get(B, i)

\* C15: for the clock A of the node and every clock B, with an absent entry
\* read as 0, happened_before(A,B) is true exactly when A[i] <= B[i] for every
\* node i and A[i] < B[i] for at least one; concurrent(A,B) is true exactly
\* when neither happened_before(A,B) nor happened_before(B,A); and the value a
\* happened_before call returns is that relation of its clock and argument.
C15_HappenedBeforeIsStrictDominance ==
    /\ \A B \in ClockInputs :
          /\ happened_before(clock, B) = StrictlyDominated(clock, B)
          /\ happened_before(B, clock) = StrictlyDominated(B, clock)
          /\ concurrent(clock, B) = (/\ ~happened_before(clock, B)
                                     /\ ~happened_before(B, clock))
    /\ vc_op = "happened_before" =>
          vc_ret = <<StrictlyDominated(clock, other_clock)>>

\* happened_before has returned True for clocks over different node ids
C15_Witness ==
    /\ vc_op = "happened_before"
    /\ vc_ret = <<TRUE>>
    /\ DOMAIN clock = {1}
    /\ DOMAIN other_clock = {2}

\* C16: happened_before is asymmetric and concurrent is symmetric: for the
\* clock A of the node and every clock B, each of happened_before(A,B) and
\* happened_before(B,A) excludes the other, and concurrent(A,B) equals
\* concurrent(B,A).
C16_AsymmetricAndSymmetric ==
    \A B \in ClockInputs :
        /\ happened_before(clock, B) => ~happened_before(B, clock)
        /\ happened_before(B, clock) => ~happened_before(clock, B)
        /\ concurrent(clock, B) = concurrent(B, clock)

\* concurrent has returned True for two clocks that each lead in one component
C16_Witness ==
    /\ vc_op = "concurrent"
    /\ vc_ret = <<TRUE>>
    /\ DOMAIN clock = ClockNodes
    /\ DOMAIN other_clock = ClockNodes
    /\ clock[1] > other_clock[1]
    /\ clock[2] < other_clock[2]
    /\ concurrent(clock, other_clock)
    /\ concurrent(other_clock, clock)

\* the component-wise maximum over the union of the node ids
MaxMerge(A, B) ==
    [n \in DOMAIN A \cup DOMAIN B |->
        IF Get(A, n) >= Get(B, n) THEN Get(A, n) ELSE Get(B, n)]

\* C17: update(X) sets every component to the maximum of its old value and
\* X's value over the union of the node ids of both clocks; merging X again
\* changes nothing; merging X then Y gives the same clock as Y then X.
C17_UpdateIsMaxMerge ==
    [][(vc_op' = "update" /\ vc_update(other_clock')) =>
          /\ clock' = MaxMerge(clock, other_clock')
          /\ update(clock', other_clock') = clock'
          /\ \A Y \in ClockInputs :
                update(update(clock, other_clock'), Y)
                    = update(update(clock, Y), other_clock')]_vars

\* node 1 at {1:1} has merged {2:2}
C17_Witness ==
    /\ node_id = 1
    /\ vc_op = "update"
    /\ other_clock = [n \in {2} |-> 2]
    /\ clock = [n \in {1, 2} |-> n]

\* C18: every component of the clock is non-negative and no operation of the
\* clock lowers a component (an absent component read as 0).
C18_NeverDecreases ==
    [][/\ \A n \in DOMAIN clock' : clock'[n] >= 0
       /\ \A n \in ClockNodes : Get(clock', n) >= Get(clock, n)]_vars

\* C19: a tick that follows update(c) leaves a clock that c happened before;
\* node 1 at {1:1} ticks to {1:2}, and node 2 at {2:0}, having merged {1:2},
\* ticks to {1:2, 2:1}.
C19_ReceiveAfterSend ==
    [][vc_tick =>
          /\ vc_op = "update" => happened_before(other_clock, clock')
          /\ (node_id = 1 /\ clock = [n \in {1} |-> 1]) =>
                clock' = [n \in {1} |-> 2]
          /\ (/\ node_id = 2
              /\ vc_op = "update"
              /\ other_clock = [n \in {1} |-> 2]
              /\ clock = update([n \in {2} |-> 0], other_clock)) =>
                clock' = [n \in {1, 2} |-> 3 - n]]_vars

\* node 2 has merged {1:2} and ticked
C19_Witness ==
    /\ node_id = 2
    /\ vc_op = "tick"
    /\ received = <<[n \in {1} |-> 2]>>
    /\ clock = [n \in {1, 2} |-> 3 - n]
    /\ happened_before(received[1], clock)

\* C20: tick() raises the own component by exactly 1 and leaves every other
\* component as it was; after n ticks, however interleaved with update(), the
\* own component is at least n above its value at the start.
C20_TickExactlyOne ==
    [][/\ vc_tick =>
            /\ DOMAIN clock' = DOMAIN clock \cup {node_id}
            /\ clock'[node_id] = Get(clock, node_id) + 1
            /\ \A n \in DOMAIN clock' \ {node_id} : clock'[n] = clock[n]
       /\ Get(clock', node_id) >= tick_start' + ticks']_vars

\* two ticks with a merge of another node's component among them
C20_Witness ==
    /\ vc_op = "tick"
    /\ ticks = 2
    /\ tick_start = 0
    /\ DOMAIN clock = ClockNodes
    /\ clock[node_id] >= 2

(* ----------------- DistributedSharedMemory properties ------------------ *)
\* C22: read-your-writes: a get(k) that directly follows a local set(k, v)
\* returns v, whatever entry the key held before the set.
C22_ReadYourWrites ==
    [][\A k \in DsmKeys, v \in DsmValues :
          (dsm_last = <<"set", k, v>> /\ dsm_get(k)) => dsm_ret' = <<v>>]_vars

\* version of the entry of k, 0 while there is none
Version(mem, k) == IF k \in DOMAIN mem THEN mem[k].version ELSE 0

\* the step has put an update into the entry of k
AppliedTo(k) ==
    /\ k \in DOMAIN memory'
    /\ k \in DOMAIN memory =>
          <<memory'[k].value, memory'[k].timestamp, memory'[k].node_id>>
              # <<memory[k].value, memory[k].timestamp, memory[k].node_id>>

\* C23: the version counter of an entry goes up by exactly 1 with every local
\* set, the creating one included, and with every remote update that is
\* applied, and stays as it is when a remote update is dropped.
C23_VersionCountsAppliedUpdates ==
    [][\A k \in DsmKeys, v \in DsmValues, t \in Times :
          /\ dsm_set(k, v, t) => Version(memory', k) = Version(memory, k) + 1
          /\ \A ts \in Times, n \in ClockNodes, vc \in ClockInputs :
                dsm_update_from_remote(k, v, ts, n, vc, t) =>
                    Version(memory', k) =
                        IF AppliedTo(k) THEN Version(memory, k) + 1
                        ELSE Version(memory, k)]_vars

\* C24: after update_from_remote every component of the local clock is at
\* least the component of the remote clock, and when the value is not applied
\* the local clock is exactly the component-wise maximum of the old local
\* clock and the remote clock.
C24_RemoteClockMerged ==
    [][\A k \in DsmKeys, v \in DsmValues, ts \in Times, n \in ClockNodes,
          vc \in ClockInputs, t \in Times :
          dsm_update_from_remote(k, v, ts, n, vc, t) =>
              /\ \A i \in ClockNodes : Get(clock', i) >= Get(vc, i)
              /\ ~AppliedTo(k) => clock' = MaxMerge(clock, vc)]_vars

\* the remote updates of one key: value, timestamp, origin
RemoteUpdates == DsmValues \X Times \X ClockNodes

\* C25: under weak consistency two remote updates to a key leave the same
\* value and owner in either order of arrival, the one with the larger
\* timestamp winning, and applying an update again changes nothing.
C25_WeakOrderIndependent ==
    consistency_level = "weak" =>
        \A k \in DsmKeys, u1 \in RemoteUpdates, u2 \in RemoteUpdates :
            LET m1 == weak_apply(memory, k, u1[1], u1[2], u1[3])
                m12 == weak_apply(m1, k, u2[1], u2[2], u2[3])
                m2 == weak_apply(memory, k, u2[1], u2[2], u2[3])
                m21 == weak_apply(m2, k, u1[1], u1[2], u1[3])
            IN /\ m12[k].value = m21[k].value
               /\ m12[k].node_id = m21[k].node_id
               /\ weak_apply(m1, k, u1[1], u1[2], u1[3]) = m1
               /\ (u1[2] > u2[2] /\ m1 # memory) => m12[k].value = u1[1]

\* C26: under causal consistency a remote update whose vector clock strictly
\* dominates the stamp of the entry of its key, or whose key has no entry, is
\* applied and get then returns its value; one whose clock is strictly
\* dominated by the stamp is dropped and leaves the entry as it is.
C26_CausalAppliesNewer ==
    [][\A k \in DsmKeys, v \in DsmValues, ts \in Times, n \in ClockNodes,
          vc \in ClockInputs, t \in Times :
          (consistency_level = "causal"
              /\ dsm_update_from_remote(k, v, ts, n, vc, t)) =>
              /\ (k \notin DOMAIN memory \/ StrictlyDominated(stamps[k], vc)) =>
                    (k \in DOMAIN memory' /\ memory'[k].value = v)
              /\ (k \in DOMAIN memory /\ StrictlyDominated(vc, stamps[k])) =>
                    memory'[k] = memory[k]]_vars

\* each of the two clocks is ahead of the other in some component
Incomparable(A, B) ==
    /\ \E i \in ClockNodes : Get(A, i) > Get(B, i)
    /\ \E i \in ClockNodes : Get(A, i) < Get(B, i)

\* C27: under causal consistency a remote update whose vector clock is
\* concurrent with the stamp of the entry of its key is not applied, and the
\* call reports it to its caller (it does not return None).
C27_CausalConflictReported ==
    [][\A k \in DsmKeys, v \in DsmValues, ts \in Times, n \in ClockNodes,
          vc \in ClockInputs, t \in Times :
          (/\ consistency_level = "causal"
           /\ k \in DOMAIN memory
           /\ Incomparable(stamps[k], vc)
           /\ dsm_update_from_remote(k, v, ts, n, vc, t)) =>
              /\ memory'[k] = memory[k]
              /\ dsm_ret' # <<>>]_vars

(* ---------------------- FailoverManager properties --------------------- *)
\* C28: a monitor pass leaves every peer whose last heartbeat is older than
\* timeout inactive and in the failed set, and between two heartbeats of a
\* peer its failure is reported (added to the failed set and handed to the
\* failover lookup) at most once, however many passes run.
C28_FailedOncePerOutage ==
    [][/\ \A t \in FoTimes : fo_monitor_check(t) =>
             \A i \in 1..Len(fo_nodes) : TimedOut(fo_nodes[i], t) =>
                 /\ fo_nodes[i].node_id \in failed_nodes'
                 /\ ~fo_nodes'[i].is_active
       /\ \A n \in DOMAIN fo_reports' : fo_reports'[n] <= 1]_vars

\* the active entries of self.nodes other than the one of n
Candidates(n) ==
    {i \in 1..Len(fo_nodes) : fo_nodes[i].node_id # n /\ fo_nodes[i].is_active}

\* the candidate with the lowest priority value and, among those, the
\* smallest node id: <<id>>, <<>> when there is no candidate
LowestPriorityThenId(n) ==
    IF Candidates(n) = {} THEN <<>>
    ELSE LET best == CHOOSE i \in Candidates(n) : \A j \in Candidates(n) :
                        \/ fo_nodes[i].priority < fo_nodes[j].priority
                        \/ /\ fo_nodes[i].priority = fo_nodes[j].priority
                           /\ fo_nodes[i].node_id <= fo_nodes[j].node_id
         IN <<fo_nodes[best].node_id>>

\* C29: the replacement selected for a failed peer is the active peer other
\* than the failed one with the lowest priority value, the smallest node id
\* among equals, whatever the registration order; it is none exactly when no
\* other peer is active, and never the failed peer or an inactive peer.
C29_ReplacementLowestPriorityThenId ==
    [][fo_trigger_failover =>
          fo_selected' = <<Head(fo_pending),
                           LowestPriorityThenId(Head(fo_pending))>>]_vars

\* C39: in every reachable state of the failure detector a registered peer is
\* in the failed set if and only if its is_active flag is false (so a peer
\* reactivated after a failure is outside the failed set and a later silence
\* is detected again).
C39_FailedIffInactive ==
    \A n \in Registered : n \in failed_nodes <=> ~StatusOf(n).is_active

(* --------------------- ReplicationManager properties ------------------- *)
\* C30: after promote_replica(k, n) on a key that has replicas get_primary(k)
\* is n and every replica of k on another node has is_primary false, also
\* when n holds no replica of k.
C30_PromoteMakesSolePrimary ==
    [][\A k \in RepKeys, n \in RepNodes :
          (k \in DOMAIN replicas /\ rep_promote_replica(k, n)) =>
              /\ get_primary(primary_replicas', k) = <<n>>
              /\ \A i \in 1..Len(replicas'[k]) :
                    replicas'[k][i].node_id # n => ~replicas'[k][i].is_primary]_vars

\* the positions of the replicas of k that are flagged primary
Primaries(k) ==
    IF k \in DOMAIN replicas
    THEN {i \in 1..Len(replicas[k]) : replicas[k][i].is_primary}
    ELSE {}

\* C31: in every reachable state each key has at most one replica with
\* is_primary true, get_primary(key) is the node id of exactly that replica,
\* and it is None when no replica of the key is flagged primary.
C31_SinglePrimaryPerKey ==
    \A k \in RepKeys :
        /\ Cardinality(Primaries(k)) <= 1
        /\ \A i \in Primaries(k) :
              get_primary(primary_replicas, k) = <<replicas[k][i].node_id>>
        /\ Primaries(k) = {} => get_primary(primary_replicas, k) = <<>>

\* the sink calls of the last replicate that went to node n
CallsTo(calls, n) == {j \in 1..Len(calls) : calls[j].node_id = n}

\* the replicas of k on node n that are active
ActiveOn(k, n) ==
    {i \in 1..Len(replicas[k]) :
        replicas[k][i].node_id = n /\ replicas[k][i].is_active}

\* C32: replicate(key, value, origin) invokes the registered sink exactly once
\* for each replica of key that is active and not on the origin node, with
\* the key and the value, and for no other replica; it returns true if and
\* only if one of those calls completed without error, and false for an
\* unknown key, for a key without sink and when every push failed.
C32_ReplicatePushesToActiveOthers ==
    [][\A k \in RepKeys, value \in RepValues, origin \in RepNodes,
         raises \in SUBSET (1..MaxReplicas) :
          rep_replicate(k, value, origin, raises) =>
            /\ (k \in DOMAIN replicas /\ k \in replication_callbacks) =>
                  /\ \A n \in RepNodes \ {origin} :
                        Cardinality(CallsTo(rep_sink', n)) =
                            Cardinality(ActiveOn(k, n))
                  /\ CallsTo(rep_sink', origin) = {}
                  /\ \A j \in 1..Len(rep_sink') :
                        rep_sink'[j].key = k /\ rep_sink'[j].value = value
            /\ rep_ret' = <<\E j \in 1..Len(rep_sink') : ~rep_sink'[j].raised>>
            /\ k \notin DOMAIN replicas => rep_ret' = <<FALSE>>
            /\ k \notin replication_callbacks =>
                  rep_sink' = <<>> /\ rep_ret' = <<FALSE>>
            /\ (\A j \in 1..Len(rep_sink') : rep_sink'[j].raised) =>
                  rep_ret' = <<FALSE>>]_vars

\* a replicate that pushed to the replicas on two other nodes and returned
\* true although one of the two pushes failed
C32_Witness ==
    /\ rep_ret = <<TRUE>>
    /\ Len(rep_sink) = 2
    /\ rep_sink[1].node_id # rep_sink[2].node_id
    /\ \E j \in 1..2 : rep_sink[j].raised

\* the node ids of the replicas of the list that are stale at current_time
\* and were active before the call, in list order
NewlyFailed(list, current_time, tmo) ==
    NodeIds(SelectSeq([i \in 1..Len(list) |-> list[i]],
                      LAMBDA r : r.is_active /\ Stale(r, current_time, tmo)))

\* C33: check_health(timeout) marks every replica whose last heartbeat is
\* older than timeout inactive and returns, per key, only the node ids that
\* became failed in this call: a replica that was already inactive before the
\* call and got no heartbeat since is not reported again.
C33_ReportsNewlyFailedOnly ==
    [][\A tmo \in RepTimeouts, t \in RepTimes :
          rep_check_health(tmo, t) =>
            /\ \A k \in DOMAIN replicas : \A i \in 1..Len(replicas[k]) :
                  Stale(replicas[k][i], t, tmo) => ~replicas'[k][i].is_active
            /\ rep_failed' =
                  <<[k \in {kk \in DOMAIN replicas :
                               NewlyFailed(replicas[kk], t, tmo) # <<>>}
                       |-> NewlyFailed(replicas[k], t, tmo)]>>]_vars

\* C34: no component lock is held while control is handed to the outside:
\* whenever a callback (here the replication sink, which replicate invokes)
\* is called, the calling thread holds no lock of the component, so a sink
\* that calls back into the manager or blocks cannot stall its other callers.
C34_NoLockHeldInCallback ==
    \A j \in 1..Len(rep_sink) : rep_sink[j].held = {}

(* ------------------- two-phase commit message properties --------------- *)
\* the positions in the run's messages of those of the given types to p
SentTo(id, p, types) ==
    {j \in 1..Len(sent[id]) :
        sent[id][j].type \in types /\ sent[id][j].receiver_id = p}

\* participant p has processed the COMMIT of id (the code has no
\* acknowledgment message; a processed COMMIT is the most p could acknowledge)
Acknowledged(p, id) ==
    /\ id \in DOMAIN part_transactions[p]
    /\ part_transactions[p][id].state = "committed"

\* C35: the coordinator does not treat the decision as delivered without an
\* acknowledgment: when it records COMMITTED, every participant has either
\* acknowledged the COMMIT or been sent it again (a retry within the budget),
\* so a participant whose first COMMIT was lost is sent a later one.
C35_DecisionAckedOrRetried ==
    \A id \in TxnIds :
        (id \in DOMAIN transactions /\ transactions[id].state = "committed") =>
            \A p \in Range(transactions[id].participants) :
                \/ Acknowledged(p, id)
                \/ Cardinality(SentTo(id, p, {"COMMIT"})) > 1

DecisionTypes == {"COMMIT", "ABORT"}

\* C36: when a run of execute(T) ends, PREPARE was sent to every participant
\* before any decision message of the run, every participant was sent exactly
\* one decision message, all decision messages are of one kind; and COMMIT
\* and ABORT for the same T are never both sent.
C36_PrepareThenOneDecision ==
    \A id \in TxnIds :
        /\ pc[id] \in {"return_true", "return_false"} =>
              /\ \A p \in Range(transactions[id].participants) :
                    /\ SentTo(id, p, {"PREPARE"}) # {}
                    /\ Cardinality(SentTo(id, p, DecisionTypes)) = 1
              /\ \A i, j \in 1..Len(sent[id]) :
                    /\ (sent[id][i].type = "PREPARE"
                        /\ sent[id][j].type \in DecisionTypes) => i < j
                    /\ (sent[id][i].type \in DecisionTypes
                        /\ sent[id][j].type \in DecisionTypes) =>
                            sent[id][i].type = sent[id][j].type
        /\ ~(/\ \E msg \in network :
                    msg.type = "COMMIT" /\ msg.transaction_id = id
             /\ \E msg \in network :
                    msg.type = "ABORT" /\ msg.transaction_id = id)

\* the edges INITIAL -> PREPARING -> PREPARED -> COMMITTING -> COMMITTED and
\* PREPARING -> ABORTING -> ABORTED
Edges ==
    {<<"initial", "preparing">>, <<"preparing", "prepared">>,
     <<"prepared", "committing">>, <<"committing", "committed">>,
     <<"preparing", "aborting">>, <<"aborting", "aborted">>}

\* C37: every change of the state the coordinator's table holds for a
\* transaction is one of the edges; COMMITTING is entered only from PREPARED.
C37_StateFollowsEdges ==
    [][\A id \in TxnIds :
          (/\ id \in DOMAIN transactions
           /\ id \in DOMAIN transactions'
           /\ transactions'[id].state # transactions[id].state) =>
              <<transactions[id].state, transactions'[id].state>> \in Edges]_vars

\* C38: a COMMIT for a transaction id the participant never prepared is a
\* protocol error: the handler applies no operations, leaves the participant's
\* table unchanged and reports a ProtocolError (or an error value), not an
\* unrelated lookup exception.
C38_UnknownDecisionIsProtocolError ==
    [][\A p \in Nodes, id \in TxnIds :
          handle_commit_unknown(p, id) =>
              /\ applied' = applied
              /\ part_transactions' = part_transactions
              /\ raised'[p] \in {"ProtocolError", "error value"}]_vars

(* ------------------------ EventOrderer properties ---------------------- *)
\* C40: get_causal_order returns the recorded events in an order consistent
\* with happened-before: of two recorded events a and b with
\* happened_before(a, b), clocks over different sets of node ids included,
\* a comes before b in the returned list.
C40_CausalOrderRespectsHappenedBefore ==
    LET sorted == SortByClock(events)
    IN \A i, j \in 1..Len(sorted) :
          happened_before(sorted[i].clock, sorted[j].clock) => i < j

====
